---- MODULE Spec2Model ----
(***************************************************************************)
(* State-machine model of contracts/EncryptedRandomSelector.sol: the       *)
(* enrollment / selection / disclosure / reset lifecycle of the selector   *)
(* contract, with the Ownable access control it inherits.                  *)
(*                                                                         *)
(* Every external function of the contract is one action.  A transaction   *)
(* is atomic: a revert leaves the storage and the event log untouched and  *)
(* only records the outcome of the call in lastCall.                       *)
(***************************************************************************)
EXTENDS Integers, Sequences, FiniteSets, Bags, TLC

(* ------------------------------ bounds -------------------------------- *)

\* Longest event log explored: a call that would emit one more event is
\* not explored further.  It also bounds participantCount.
MaxEvents == 4

\* Number of distinct plaintexts carried by the submitted external handles.
NumHandles == 2

\* Largest low limb of the block timestamps explored.
MaxLow == 3

(* ------------------------------ values -------------------------------- *)

\* Accounts that send transactions; the first one deploys the contract.
Deployer == "deployer"
Addresses == {Deployer, "participant1"}

\* Keys of the two mappings (uint256 participant IDs); one more than can
\* ever be enrolled, so that a never-enrolled ID is always in the domain.
Ids == 0 .. MaxEvents

\* Revert reasons and the outcome of a call that did not revert.
Ok == "ok"
Unauthorized == "Ownable: caller is not the owner"
NoCandidates == "NoCandidates"
DecryptionNotReady == "DecryptionNotReady"
InvalidProof == "InvalidProof"

\* euint32: an opaque ciphertext handle.  The default value of the type (an
\* unset storage slot, or a deleted one) is the uninitialised handle.
ZeroHandle == [init |-> FALSE, plain |-> 0]

\* FHE.asEuint32(v): the trivial encryption of the plaintext v.
AsEuint32(v) == [init |-> TRUE, plain |-> v]

\* FHE.decrypt(h): the plaintext under the handle (0 for the default handle).
Decrypt(h) == h.plain

\* FHE.fromExternal(encryptedHandle, inputProof), on a proof that verifies.
FromExternal(ext) == [init |-> TRUE, plain |-> ext]

\* External handles the owner may submit, named by the plaintext they carry.
ExternalHandles == 1 .. NumHandles

(* ----------------------- 256-bit and 32-bit integers ------------------- *)
\* block.timestamp is a uint256.  It is kept as three 16-bit limbs
\* (h2 * 2^32 + h1 * 2^16 + l) so that values of 2^32 and more can be told
\* from their low 32 bits.
Limb == 2 ^ 16

Timestamps ==
    { [h2 |-> a, h1 |-> b, l |-> c] : a \in {0, 1}, b \in {0, Limb - 1}, c \in 0 .. MaxLow }

ToLimbs(v) == [h2 |-> 0, h1 |-> v \div Limb, l |-> v % Limb]

LimbsValue(x) == x.h2 * Limb * Limb + x.h1 * Limb + x.l

\* x % n for a limb-encoded x and a small n > 0.
ModLimbs(x, n) ==
    LET b1 == Limb % n
        b2 == (b1 * b1) % n
    IN  ToLimbs((x.h2 * b2 + x.h1 * b1 + x.l) % n)

\* uint32(x): the explicit narrowing cast keeps the low 32 bits.
Uint32(x) == [x EXCEPT !.h2 = 0]

(* ------------------------------ state --------------------------------- *)

VARIABLES
    owner,                  \* Ownable._owner
    encryptedHandles,       \* mapping(uint256 => euint32)
    handleExists,           \* mapping(uint256 => bool)
    encryptedWinnerIndex,   \* euint32
    selectionReady,         \* bool
    participantCount,       \* uint256
    events,                 \* the contract's event log, oldest first
    lastCall                \* the most recent call and its outcome

storage == <<encryptedHandles, handleExists, encryptedWinnerIndex, selectionReady, participantCount>>

vars == <<owner, encryptedHandles, handleExists, encryptedWinnerIndex, selectionReady, participantCount, events, lastCall>>

\* The other programs of the repository; a step of the selector contract
\* leaves them alone.
VARIABLES
    fhevm,                  \* the most recent FHEVMIntegration transaction
    component,              \* the EncryptedSelector component: its state hooks
                            \* and the progress of initializeFHEVM
    hook                    \* the useContract hook: its state hooks, the runs of
                            \* initializeContract and the handler calls in flight

others == <<fhevm, component, hook>>

\* Events declared by the contract.
ParticipantEnrolled(id, h) == [name |-> "ParticipantEnrolled", participantId |-> id, handle |-> h]
SelectionGenerated(w) == [name |-> "SelectionGenerated", participantId |-> 0, handle |-> w]
RoundReset == [name |-> "RoundReset", participantId |-> 0, handle |-> ZeroHandle]

\* The record of a call: which function, who called, the outcome, and the
\* returned value of a view function; for a selection that went through,
\* the timestamp of its block; for an enrollment, whether the submitted
\* handle and proof verify.
Call(op, caller, result) ==
    [op |-> op, caller |-> caller, result |-> result,
     retHandle |-> ZeroHandle, retCount |-> 0, retFlag |-> FALSE,
     timestamp |-> ToLimbs(0), proofValid |-> TRUE]

\* A call of enrollParticipant with its (encryptedHandle, inputProof) pair.
EnrollCall(caller, result, proofOk) ==
    [Call("enrollParticipant", caller, result) EXCEPT !.proofValid = proofOk]

\* A reverted transaction: nothing but the outcome is observable.
Reverted(call) ==
    /\ lastCall' = call
    /\ UNCHANGED <<owner, storage, events>>

Revert(op, caller, reason) == Reverted(Call(op, caller, reason))

\* Variant: the Ownable constructor does not run, the owner stays the zero
\* address.
Init_OwnerUnset ==
    /\ owner = "0x0000000000000000000000000000000000000000"
    /\ encryptedHandles = [i \in Ids |-> ZeroHandle]
    /\ handleExists = [i \in Ids |-> FALSE]
    /\ encryptedWinnerIndex = ZeroHandle
    /\ selectionReady = FALSE
    /\ participantCount = 0
    /\ events = << >>
    /\ lastCall = Call("constructor", Deployer, Ok)

Init ==
    /\ owner = Deployer
    /\ encryptedHandles = [i \in Ids |-> ZeroHandle]
    /\ handleExists = [i \in Ids |-> FALSE]
    /\ encryptedWinnerIndex = ZeroHandle
    /\ selectionReady = FALSE
    /\ participantCount = 0
    /\ events = << >>
    /\ lastCall = Call("constructor", Deployer, Ok)

(* ------------------------------ actions ------------------------------- *)

\* Variant: the modulus is off by one (participantCount + 1).
WinnerPlain_OffByOne(ts, count) == LimbsValue(Uint32(ModLimbs(ts, count + 1)))

\* The plaintext of the winner index: uint32(block.timestamp % participantCount).
WinnerPlain(ts, count) == LimbsValue(Uint32(ModLimbs(ts, count)))

\* Variant: the loop starts at 1 (for (uint256 i = 1; ...)).
DeleteBelow_FromOne(m, count, default) ==
    [i \in Ids |-> IF 1 <= i /\ i < count THEN default ELSE m[i]]

\* The loop of resetRound over one mapping: delete the keys below count.
DeleteBelow(m, count, default) == [i \in Ids |-> IF i < count THEN default ELSE m[i]]

\* Variant: the onlyOwner modifier is missing.
EnrollParticipant_NoOwnerCheck(caller, ext, proofOk) ==
    IF ~proofOk THEN Reverted(EnrollCall(caller, InvalidProof, proofOk))
    ELSE
        LET handle == FromExternal(ext)
            participantId == participantCount
        IN  /\ Len(events) < MaxEvents
            /\ participantCount' = participantCount + 1
            /\ encryptedHandles' = [encryptedHandles EXCEPT ![participantId] = handle]
            /\ handleExists' = [handleExists EXCEPT ![participantId] = TRUE]
            /\ events' = Append(events, ParticipantEnrolled(participantId, handle))
            /\ lastCall' = EnrollCall(caller, Ok, proofOk)
            /\ UNCHANGED <<owner, encryptedWinnerIndex, selectionReady>>

\* Variant: participantId = participantCount, without the post-increment.
EnrollParticipant_NoIncrement(caller, ext, proofOk) ==
    IF caller # owner THEN Reverted(EnrollCall(caller, Unauthorized, proofOk))
    ELSE IF ~proofOk THEN Reverted(EnrollCall(caller, InvalidProof, proofOk))
    ELSE
        LET handle == FromExternal(ext)
            participantId == participantCount
        IN  /\ Len(events) < MaxEvents
            /\ encryptedHandles' = [encryptedHandles EXCEPT ![participantId] = handle]
            /\ handleExists' = [handleExists EXCEPT ![participantId] = TRUE]
            /\ events' = Append(events, ParticipantEnrolled(participantId, handle))
            /\ lastCall' = EnrollCall(caller, Ok, proofOk)
            /\ UNCHANGED <<owner, encryptedWinnerIndex, selectionReady, participantCount>>

\* Variant: the outcome of FHE.fromExternal is not waited for: the record
\* is stored whether or not the proof verifies.
EnrollParticipant_IgnoreProof(caller, ext, proofOk) ==
    IF caller # owner THEN Reverted(EnrollCall(caller, Unauthorized, proofOk))
    ELSE
        LET handle == FromExternal(ext)
            participantId == participantCount
        IN  /\ Len(events) < MaxEvents
            /\ participantCount' = participantCount + 1
            /\ encryptedHandles' = [encryptedHandles EXCEPT ![participantId] = handle]
            /\ handleExists' = [handleExists EXCEPT ![participantId] = TRUE]
            /\ events' = Append(events, ParticipantEnrolled(participantId, handle))
            /\ lastCall' = EnrollCall(caller, Ok, proofOk)
            /\ UNCHANGED <<owner, encryptedWinnerIndex, selectionReady>>

\* Variant: the event carries participantCount after the increment.
EnrollParticipant_EmitCount(caller, ext, proofOk) ==
    IF caller # owner THEN Reverted(EnrollCall(caller, Unauthorized, proofOk))
    ELSE IF ~proofOk THEN Reverted(EnrollCall(caller, InvalidProof, proofOk))
    ELSE
        LET handle == FromExternal(ext)
            participantId == participantCount
        IN  /\ Len(events) < MaxEvents
            /\ participantCount' = participantCount + 1
            /\ encryptedHandles' = [encryptedHandles EXCEPT ![participantId] = handle]
            /\ handleExists' = [handleExists EXCEPT ![participantId] = TRUE]
            /\ events' = Append(events, ParticipantEnrolled(participantCount', handle))
            /\ lastCall' = EnrollCall(caller, Ok, proofOk)
            /\ UNCHANGED <<owner, encryptedWinnerIndex, selectionReady>>

\* Variant: an enrollment invalidates the selection in force.
EnrollParticipant_ClearsSelection(caller, ext, proofOk) ==
    IF caller # owner THEN Reverted(EnrollCall(caller, Unauthorized, proofOk))
    ELSE IF ~proofOk THEN Reverted(EnrollCall(caller, InvalidProof, proofOk))
    ELSE
        LET handle == FromExternal(ext)
            participantId == participantCount
        IN  /\ Len(events) < MaxEvents
            /\ participantCount' = participantCount + 1
            /\ encryptedHandles' = [encryptedHandles EXCEPT ![participantId] = handle]
            /\ handleExists' = [handleExists EXCEPT ![participantId] = TRUE]
            /\ selectionReady' = FALSE
            /\ encryptedWinnerIndex' = ZeroHandle
            /\ events' = Append(events, ParticipantEnrolled(participantId, handle))
            /\ lastCall' = EnrollCall(caller, Ok, proofOk)
            /\ UNCHANGED owner

EnrollParticipant(caller, ext, proofOk) ==
    IF caller # owner THEN Reverted(EnrollCall(caller, Unauthorized, proofOk))
    ELSE IF ~proofOk THEN Reverted(EnrollCall(caller, InvalidProof, proofOk))
    ELSE
        LET handle == FromExternal(ext)
            participantId == participantCount
        IN  /\ Len(events) < MaxEvents
            /\ participantCount' = participantCount + 1
            /\ encryptedHandles' = [encryptedHandles EXCEPT ![participantId] = handle]
            /\ handleExists' = [handleExists EXCEPT ![participantId] = TRUE]
            /\ events' = Append(events, ParticipantEnrolled(participantId, handle))
            /\ lastCall' = EnrollCall(caller, Ok, proofOk)
            /\ UNCHANGED <<owner, encryptedWinnerIndex, selectionReady>>

\* Variant: the require is missing, so that with no participant the
\* modulo by zero panics instead.
GenerateEncryptedSelection_NoRequire(caller, ts) ==
    IF caller # owner THEN Revert("generateEncryptedSelection", caller, Unauthorized)
    ELSE IF participantCount = 0 THEN Revert("generateEncryptedSelection", caller, "Panic(0x12)")
    ELSE
        LET randomIndex == AsEuint32(WinnerPlain(ts, participantCount))
        IN  /\ Len(events) < MaxEvents
            /\ encryptedWinnerIndex' = randomIndex
            /\ selectionReady' = TRUE
            /\ events' = Append(events, SelectionGenerated(randomIndex))
            /\ lastCall' = [Call("generateEncryptedSelection", caller, Ok) EXCEPT !.timestamp = ts]
            /\ UNCHANGED <<owner, encryptedHandles, handleExists, participantCount>>

\* Variant: the candidate check runs before the ownership check.
GenerateEncryptedSelection_RequireFirst(caller, ts) ==
    IF ~(participantCount > 0) THEN Revert("generateEncryptedSelection", caller, NoCandidates)
    ELSE IF caller # owner THEN Revert("generateEncryptedSelection", caller, Unauthorized)
    ELSE
        LET randomIndex == AsEuint32(WinnerPlain(ts, participantCount))
        IN  /\ Len(events) < MaxEvents
            /\ encryptedWinnerIndex' = randomIndex
            /\ selectionReady' = TRUE
            /\ events' = Append(events, SelectionGenerated(randomIndex))
            /\ lastCall' = [Call("generateEncryptedSelection", caller, Ok) EXCEPT !.timestamp = ts]
            /\ UNCHANGED <<owner, encryptedHandles, handleExists, participantCount>>

\* Variant: a second selection in the same round is refused.
GenerateEncryptedSelection_OncePerRound(caller, ts) ==
    IF caller # owner THEN Revert("generateEncryptedSelection", caller, Unauthorized)
    ELSE IF ~(participantCount > 0) THEN Revert("generateEncryptedSelection", caller, NoCandidates)
    ELSE IF selectionReady THEN Revert("generateEncryptedSelection", caller, "AlreadyGenerated")
    ELSE
        LET randomIndex == AsEuint32(WinnerPlain(ts, participantCount))
        IN  /\ Len(events) < MaxEvents
            /\ encryptedWinnerIndex' = randomIndex
            /\ selectionReady' = TRUE
            /\ events' = Append(events, SelectionGenerated(randomIndex))
            /\ lastCall' = [Call("generateEncryptedSelection", caller, Ok) EXCEPT !.timestamp = ts]
            /\ UNCHANGED <<owner, encryptedHandles, handleExists, participantCount>>

GenerateEncryptedSelection(caller, ts) ==
    IF caller # owner THEN Revert("generateEncryptedSelection", caller, Unauthorized)
    ELSE IF ~(participantCount > 0) THEN Revert("generateEncryptedSelection", caller, NoCandidates)
    ELSE
        LET randomIndex == AsEuint32(WinnerPlain(ts, participantCount))
        IN  /\ Len(events) < MaxEvents
            /\ encryptedWinnerIndex' = randomIndex
            /\ selectionReady' = TRUE
            /\ events' = Append(events, SelectionGenerated(randomIndex))
            /\ lastCall' = [Call("generateEncryptedSelection", caller, Ok) EXCEPT !.timestamp = ts]
            /\ UNCHANGED <<owner, encryptedHandles, handleExists, participantCount>>

\* Variant: the require is missing.
GetEncryptedWinner_NoRequire(caller) ==
    /\ lastCall' = [Call("getEncryptedWinner", caller, Ok) EXCEPT
                       !.retHandle = encryptedHandles[Decrypt(encryptedWinnerIndex)]]
    /\ UNCHANGED <<owner, storage, events>>

GetEncryptedWinner(caller) ==
    IF ~selectionReady THEN Revert("getEncryptedWinner", caller, DecryptionNotReady)
    ELSE
        /\ lastCall' = [Call("getEncryptedWinner", caller, Ok) EXCEPT
                           !.retHandle = encryptedHandles[Decrypt(encryptedWinnerIndex)]]
        /\ UNCHANGED <<owner, storage, events>>

\* Variant: selectionReady is not cleared.
ResetRound_KeepReady(caller) ==
    IF caller # owner THEN Revert("resetRound", caller, Unauthorized)
    ELSE
        /\ Len(events) < MaxEvents
        /\ encryptedHandles' = DeleteBelow(encryptedHandles, participantCount, ZeroHandle)
        /\ handleExists' = DeleteBelow(handleExists, participantCount, FALSE)
        /\ participantCount' = 0
        /\ events' = Append(events, RoundReset)
        /\ lastCall' = Call("resetRound", caller, Ok)
        /\ UNCHANGED <<owner, selectionReady, encryptedWinnerIndex>>

\* Variant: participantCount is not zeroed.
ResetRound_KeepCount(caller) ==
    IF caller # owner THEN Revert("resetRound", caller, Unauthorized)
    ELSE
        /\ Len(events) < MaxEvents
        /\ encryptedHandles' = DeleteBelow(encryptedHandles, participantCount, ZeroHandle)
        /\ handleExists' = DeleteBelow(handleExists, participantCount, FALSE)
        /\ selectionReady' = FALSE
        /\ encryptedWinnerIndex' = ZeroHandle
        /\ events' = Append(events, RoundReset)
        /\ lastCall' = Call("resetRound", caller, Ok)
        /\ UNCHANGED <<owner, participantCount>>

\* Variant: only the last participant is removed (participantCount is
\* decremented where it should be zeroed).
ResetRound_RemoveLast(caller) ==
    IF caller # owner THEN Revert("resetRound", caller, Unauthorized)
    ELSE
        LET last == IF participantCount > 0 THEN participantCount - 1 ELSE 0
        IN  /\ Len(events) < MaxEvents
            /\ encryptedHandles' = [encryptedHandles EXCEPT ![last] = ZeroHandle]
            /\ handleExists' = [handleExists EXCEPT ![last] = FALSE]
            /\ participantCount' = last
            /\ selectionReady' = FALSE
            /\ encryptedWinnerIndex' = ZeroHandle
            /\ events' = Append(events, RoundReset)
            /\ lastCall' = Call("resetRound", caller, Ok)
            /\ UNCHANGED owner

\* Variant: the onlyOwner modifier is missing.
ResetRound_NoOwnerCheck(caller) ==
    /\ Len(events) < MaxEvents
    /\ encryptedHandles' = DeleteBelow(encryptedHandles, participantCount, ZeroHandle)
    /\ handleExists' = DeleteBelow(handleExists, participantCount, FALSE)
    /\ participantCount' = 0
    /\ selectionReady' = FALSE
    /\ encryptedWinnerIndex' = ZeroHandle
    /\ events' = Append(events, RoundReset)
    /\ lastCall' = Call("resetRound", caller, Ok)
    /\ UNCHANGED owner

ResetRound(caller) ==
    IF caller # owner THEN Revert("resetRound", caller, Unauthorized)
    ELSE
        /\ Len(events) < MaxEvents
        /\ encryptedHandles' = DeleteBelow(encryptedHandles, participantCount, ZeroHandle)
        /\ handleExists' = DeleteBelow(handleExists, participantCount, FALSE)
        /\ participantCount' = 0
        /\ selectionReady' = FALSE
        /\ encryptedWinnerIndex' = ZeroHandle
        /\ events' = Append(events, RoundReset)
        /\ lastCall' = Call("resetRound", caller, Ok)
        /\ UNCHANGED owner

\* Variant: readiness is derived from the count instead of read from the flag.
IsSelectionReady_FromCount(caller) ==
    /\ lastCall' = [Call("isSelectionReady", caller, Ok) EXCEPT !.retFlag = (participantCount > 0)]
    /\ UNCHANGED <<owner, storage, events>>

GetParticipantCount(caller) ==
    /\ lastCall' = [Call("getParticipantCount", caller, Ok) EXCEPT !.retCount = participantCount]
    /\ UNCHANGED <<owner, storage, events>>

IsSelectionReady(caller) ==
    /\ lastCall' = [Call("isSelectionReady", caller, Ok) EXCEPT !.retFlag = selectionReady]
    /\ UNCHANGED <<owner, storage, events>>

\* Ownable.transferOwnership, inherited by the contract.
TransferOwnership(caller, newOwner) ==
    IF caller # owner THEN Revert("transferOwnership", caller, Unauthorized)
    ELSE
        /\ owner' = newOwner
        /\ lastCall' = Call("transferOwnership", caller, Ok)
        /\ UNCHANGED <<storage, events>>

Next ==
    \/ \E c \in Addresses, e \in ExternalHandles, p \in BOOLEAN : EnrollParticipant(c, e, p) /\ UNCHANGED others
    \/ \E c \in Addresses, ts \in Timestamps : GenerateEncryptedSelection(c, ts) /\ UNCHANGED others
    \/ \E c \in Addresses : GetEncryptedWinner(c) /\ UNCHANGED others
    \/ \E c \in Addresses : ResetRound(c) /\ UNCHANGED others
    \/ \E c \in Addresses : GetParticipantCount(c) /\ UNCHANGED others
    \/ \E c \in Addresses : IsSelectionReady(c) /\ UNCHANGED others
    \/ \E c \in Addresses, n \in Addresses : TransferOwnership(c, n) /\ UNCHANGED others

(* ======================= contract FHEVMIntegration ===================== *)
\* The contract has no storage of its own.  What a transaction leaves to be
\* observed is its outcome, its return value and the events it emitted.

\* Longest batch passed to batchEncrypt.
MaxBatch == 2

\* A uint32 as two 16-bit limbs.
U32(h, l) == [h2 |-> 0, h1 |-> h, l |-> l]

Lt32(a, b) == a.h1 < b.h1 \/ (a.h1 = b.h1 /\ a.l < b.l)

\* a + b, a - b and a * b in uint32 arithmetic (wrapping at 2^32), as the
\* FHE library computes them under encryption.
Add32(a, b) ==
    LET s0 == a.l + b.l
        s1 == a.h1 + b.h1 + (s0 \div Limb)
    IN  U32(s1 % Limb, s0 % Limb)

Sub32(a, b) ==
    LET d0 == a.l - b.l
        borrow == IF d0 < 0 THEN 1 ELSE 0
        d1 == a.h1 - b.h1 - borrow
    IN  U32((d1 + Limb) % Limb, (d0 + Limb) % Limb)

\* The full product of two 16-bit limbs, computed in 8-bit halves.
Mul16(x, y) ==
    LET half == 2 ^ 8
        p == (x % half) * y
        q == (x \div half) * y
    IN  Add32(U32(q \div half, (q % half) * half), U32(p \div Limb, p % Limb))

Mul32(a, b) ==
    LET low == Mul16(a.l, b.l)
    IN  U32((low.h1 + Mul16(a.h1, b.l).l + Mul16(a.l, b.h1).l) % Limb, low.l)

\* a + b modulo n for a, b < n, without leaving the range below 2^31.
AddMod(a, b, n) == IF a >= n - b THEN a - (n - b) ELSE a + b

\* x % n in uint32 arithmetic, n > 0.  Values of 2^31 and more are handled
\* through their distance to 2^31.
Mod32(x, n) ==
    LET top == Limb \div 2
        big(v) == v.h1 >= top
        low31(v) == (v.h1 % top) * Limb + v.l
        max31 == (top - 1) * Limb + (Limb - 1)
    IN  IF ~big(n)
        THEN LET N == low31(n)
                 r0 == low31(x) % N
                 p31 == AddMod(max31 % N, 1 % N, N)
             IN  ToLimbs(IF big(x) THEN AddMod(r0, p31, N) ELSE r0)
        ELSE IF ~big(x) THEN x
        ELSE IF low31(x) < low31(n) THEN x
        ELSE ToLimbs(low31(x) - low31(n))

\* FHE.add, FHE.sub, FHE.mul and FHE.gt on ciphertext handles.
FheAdd(a, b) == AsEuint32(Add32(Decrypt(a), Decrypt(b)))
FheSub(a, b) == AsEuint32(Sub32(Decrypt(a), Decrypt(b)))
FheMul(a, b) == AsEuint32(Mul32(Decrypt(a), Decrypt(b)))
FheGt(a, b) == AsEuint32(IF Lt32(Decrypt(b), Decrypt(a)) THEN U32(0, 1) ELSE U32(0, 0))

\* Plaintexts, ciphertext handles, upper bounds, hashes and block timestamps
\* the transactions are explored with.
Uint32Values == {U32(0, 0), U32(0, 1), U32(0, 2), U32(Limb - 1, Limb - 1)}

Ciphertexts == {AsEuint32(v) : v \in Uint32Values}

MaxValues ==
    {U32(0, 0), U32(0, 1), U32(0, 3), U32(0, Limb - 1), U32(1, 0),
     U32(Limb \div 2 - 1, Limb - 1), U32(Limb \div 2, 0), U32(Limb - 1, Limb - 1)}

\* keccak256(abi.encodePacked(block.timestamp, block.prevrandao, msg.sender))
\* as a uint256: any value; h2 stands for the bits above the low 32.
Hashes ==
    {[h2 |-> a, h1 |-> b, l |-> c] :
        a \in {0, 1}, b \in {0, 1, Limb \div 2 - 1, Limb \div 2, Limb - 1}, c \in {0, 1, 2, Limb - 1}}

FheTimestamps == {ToLimbs(1), [h2 |-> 1, h1 |-> 0, l |-> 0]}

BatchValues == UNION {[1 .. n -> {U32(0, 1), U32(0, 2)}] : n \in 0 .. MaxBatch}

BatchProofs == {[i \in 1 .. n |-> "mock_proof"] : n \in 0 .. MaxBatch}

\* Revert reasons of the contract.
MaxValueMustBePositive == "MaxValueMustBePositive"
MismatchedInputs == "MismatchedInputs"
EmptyBatch == "EmptyBatch"

\* Events declared by the contract.
FHEOperation(operation, caller, timestamp) ==
    [name |-> "FHEOperation", operation |-> operation, caller |-> caller, timestamp |-> timestamp]
EncryptionPerformed(user, encryptedValue) ==
    [name |-> "EncryptionPerformed", user |-> user, encryptedValue |-> encryptedValue]
DecryptionRequested(user, encryptedValue) ==
    [name |-> "DecryptionRequested", user |-> user, encryptedValue |-> encryptedValue]

\* A transaction: the function, msg.sender, its arguments, the outcome, the
\* value returned and the events emitted.
FheTx(op, caller, args, result, ret, emitted) ==
    [op |-> op, caller |-> caller, args |-> args, result |-> result, ret |-> ret, events |-> emitted]

\* A reverted transaction returns nothing and emits nothing.
FheRevert(op, caller, args, reason) ==
    fhevm' = FheTx(op, caller, args, reason, << >>, << >>)

FheInit == fhevm = FheTx("constructor", Deployer, << >>, Ok, << >>, << >>)

EncryptValue(caller, value, ts) ==
    LET encryptedValue == AsEuint32(value)
    IN  fhevm' = FheTx("encryptValue", caller, <<value>>, Ok, <<encryptedValue>>,
                       <<EncryptionPerformed(caller, encryptedValue), FHEOperation("encryption", caller, ts)>>)

HomomorphicAdd(caller, a, b, ts) ==
    fhevm' = FheTx("homomorphicAdd", caller, <<a, b>>, Ok, <<FheAdd(a, b)>>,
                   <<FHEOperation("addition", caller, ts)>>)

HomomorphicSub(caller, a, b, ts) ==
    fhevm' = FheTx("homomorphicSub", caller, <<a, b>>, Ok, <<FheSub(a, b)>>,
                   <<FHEOperation("subtraction", caller, ts)>>)

HomomorphicMul(caller, a, b, ts) ==
    fhevm' = FheTx("homomorphicMul", caller, <<a, b>>, Ok, <<FheMul(a, b)>>,
                   <<FHEOperation("multiplication", caller, ts)>>)

HomomorphicGt(caller, a, b, ts) ==
    fhevm' = FheTx("homomorphicGt", caller, <<a, b>>, Ok, <<FheGt(a, b)>>,
                   <<FHEOperation("comparison", caller, ts)>>)

\* Variant: the seed itself, not reduced modulo maxValue.
RandomIndex_NoModulo(hash, maxValue) == Uint32(hash)

\* randomSeed % maxValue, randomSeed being the low 32 bits of the hash.
RandomIndex(hash, maxValue) == Mod32(Uint32(hash), maxValue)

GenerateRandomIndex(caller, maxValue, hash, ts) ==
    IF ~Lt32(U32(0, 0), maxValue)
    THEN FheRevert("generateRandomIndex", caller, <<maxValue>>, MaxValueMustBePositive)
    ELSE fhevm' = FheTx("generateRandomIndex", caller, <<maxValue>>, Ok,
                        <<AsEuint32(RandomIndex(hash, maxValue))>>,
                        <<FHEOperation("random_generation", caller, ts)>>)

\* Variant: the two events of decryptValue in the opposite order.
DecryptValue_OperationFirst(caller, encryptedValue, ts) ==
    fhevm' = FheTx("decryptValue", caller, <<encryptedValue>>, Ok, <<Decrypt(encryptedValue)>>,
                   <<FHEOperation("decryption", caller, ts), DecryptionRequested(caller, encryptedValue)>>)

DecryptValue(caller, encryptedValue, ts) ==
    fhevm' = FheTx("decryptValue", caller, <<encryptedValue>>, Ok, <<Decrypt(encryptedValue)>>,
                   <<DecryptionRequested(caller, encryptedValue), FHEOperation("decryption", caller, ts)>>)

\* The loop of batchEncrypt: one ciphertext per value, in order.
EncryptAll(values) == [i \in 1 .. Len(values) |-> AsEuint32(values[i])]

\* Variant: the emptiness check before the length comparison.
BatchEncrypt_EmptyFirst(caller, values, proofs, ts) ==
    IF ~(Len(values) > 0)
    THEN FheRevert("batchEncrypt", caller, <<values, proofs>>, EmptyBatch)
    ELSE IF Len(values) # Len(proofs)
    THEN FheRevert("batchEncrypt", caller, <<values, proofs>>, MismatchedInputs)
    ELSE fhevm' = FheTx("batchEncrypt", caller, <<values, proofs>>, Ok, EncryptAll(values),
                        <<FHEOperation("batch_encryption", caller, ts)>>)

BatchEncrypt(caller, values, proofs, ts) ==
    IF Len(values) # Len(proofs)
    THEN FheRevert("batchEncrypt", caller, <<values, proofs>>, MismatchedInputs)
    ELSE IF ~(Len(values) > 0)
    THEN FheRevert("batchEncrypt", caller, <<values, proofs>>, EmptyBatch)
    ELSE fhevm' = FheTx("batchEncrypt", caller, <<values, proofs>>, Ok, EncryptAll(values),
                        <<FHEOperation("batch_encryption", caller, ts)>>)

FheNext ==
    \/ \E c \in Addresses, v \in Uint32Values, ts \in FheTimestamps : EncryptValue(c, v, ts) /\ UNCHANGED <<vars, component, hook>>
    \/ \E c \in Addresses, a \in Ciphertexts, b \in Ciphertexts, ts \in FheTimestamps : HomomorphicAdd(c, a, b, ts) /\ UNCHANGED <<vars, component, hook>>
    \/ \E c \in Addresses, a \in Ciphertexts, b \in Ciphertexts, ts \in FheTimestamps : HomomorphicSub(c, a, b, ts) /\ UNCHANGED <<vars, component, hook>>
    \/ \E c \in Addresses, a \in Ciphertexts, b \in Ciphertexts, ts \in FheTimestamps : HomomorphicMul(c, a, b, ts) /\ UNCHANGED <<vars, component, hook>>
    \/ \E c \in Addresses, a \in Ciphertexts, b \in Ciphertexts, ts \in FheTimestamps : HomomorphicGt(c, a, b, ts) /\ UNCHANGED <<vars, component, hook>>
    \/ \E c \in Addresses, m \in MaxValues, h \in Hashes, ts \in FheTimestamps : GenerateRandomIndex(c, m, h, ts) /\ UNCHANGED <<vars, component, hook>>
    \/ \E c \in Addresses, e \in Ciphertexts, ts \in FheTimestamps : DecryptValue(c, e, ts) /\ UNCHANGED <<vars, component, hook>>
    \/ \E c \in Addresses, vs \in BatchValues, ps \in BatchProofs, ts \in FheTimestamps : BatchEncrypt(c, vs, ps, ts) /\ UNCHANGED <<vars, component, hook>>

(* ===================== component EncryptedSelector ===================== *)

\* Most participants the list is explored with.
MaxParticipants == 3

\* null, and a value that is not null.
Null == << >>
Some(x) == <<x>>

\* Texts are sequences of characters.  The number input hands the handler
\* either the empty text or the text of a number.
Empty == << >>

InputTexts == {<<"1">>, <<"2">>, <<"1", ".", "5">>, <<"-", "2">>}

Digits == <<"0", "1", "2", "3", "4", "5", "6", "7", "8", "9">>

IsDigit(c) == \E d \in 1 .. 10 : Digits[d] = c

DigitValue(c) == (CHOOSE d \in 1 .. 10 : Digits[d] = c) - 1

NaN == "NaN"

RECURSIVE ParseDigits(_, _, _)
ParseDigits(text, i, acc) ==
    IF i > Len(text) \/ ~IsDigit(text[i])
    THEN acc
    ELSE ParseDigits(text, i + 1, acc * 10 + DigitValue(text[i]))

\* parseInt: an optional sign, then the longest run of digits; NaN if there
\* is none.
ParseInt(text) ==
    LET signed == Len(text) > 0 /\ text[1] \in {"-", "+"}
        start == IF signed THEN 2 ELSE 1
    IN  IF start > Len(text) \/ ~IsDigit(text[start])
        THEN NaN
        ELSE IF signed /\ text[1] = "-"
        THEN 0 - ParseDigits(text, start, 0)
        ELSE ParseDigits(text, start, 0)

\* The EncryptedParticipant built by the component; enrolledAt, the wall
\* clock at the click, is only displayed and is left out.
Participant(text) == [id |-> ParseInt(text), encryptedHandle |-> <<"encrypted_">> \o text]

\* Math.floor(Math.random() * n): Math.random() is in [0, 1), so any integer
\* below n, and 0 when n is 0.
RandomBelow(n) == IF n = 0 THEN {0} ELSE 0 .. n - 1

Result(winnerId) == [winnerId |-> winnerId, isReady |-> TRUE, canDecrypt |-> TRUE]

\* The state hooks at their initial values; the effect that runs
\* initializeFHEVM has not run yet.
ComponentInit ==
    component = [participants |-> << >>, participantCount |-> 0, selectionResult |-> Null,
                 isLoading |-> FALSE, newParticipantId |-> Empty, init |-> "mounting"]

\* The mount effect calls initializeFHEVM: with a wallet it awaits the
\* account request, without one it does nothing.
Mount(ethereum) ==
    /\ component.init = "mounting"
    /\ component' = [component EXCEPT !.init = IF ethereum THEN "pending" ELSE "done"]

\* The account request resolves: updateParticipantCount runs.
AccountsResolved ==
    /\ component.init = "pending"
    /\ component' = [component EXCEPT !.init = "done", !.participantCount = 0]

\* The account request is rejected: the error is logged.
AccountsRejected ==
    /\ component.init = "pending"
    /\ component' = [component EXCEPT !.init = "failed"]

\* onChange of the participant id input.
SetNewParticipantId(text) ==
    /\ component.init # "mounting"
    /\ component' = [component EXCEPT !.newParticipantId = text]

\* A click on Enroll Participant.  The handler has no await in it: the
\* updates it makes, isLoading set and cleared among them, land together.
ClickEnroll ==
    /\ component.init # "mounting"
    /\ ~component.isLoading
    /\ Len(component.participants) < MaxParticipants
    /\ IF component.newParticipantId = Empty
       THEN component' = component
       ELSE component' = [component EXCEPT
                !.participants = Append(@, Participant(component.newParticipantId)),
                !.participantCount = Len(component.participants) + 1,
                !.newParticipantId = Empty,
                !.isLoading = FALSE]

\* A click on Generate Random, enabled while a count other than 0 is shown.
ClickGenerate ==
    /\ component.init # "mounting"
    /\ ~(component.isLoading \/ component.participantCount = 0)
    /\ \E w \in RandomBelow(Len(component.participants)) :
          component' = [component EXCEPT !.selectionResult = Some(Result(w)), !.isLoading = FALSE]

\* A click on Reset Round.
ClickReset ==
    /\ component.init # "mounting"
    /\ component' = [component EXCEPT !.participants = << >>, !.participantCount = 0,
                                      !.selectionResult = Null]

ComponentNext ==
    \/ \E e \in BOOLEAN : Mount(e) /\ UNCHANGED <<vars, fhevm, hook>>
    \/ AccountsResolved /\ UNCHANGED <<vars, fhevm, hook>>
    \/ AccountsRejected /\ UNCHANGED <<vars, fhevm, hook>>
    \/ \E t \in InputTexts \cup {Empty} : SetNewParticipantId(t) /\ UNCHANGED <<vars, fhevm, hook>>
    \/ ClickEnroll /\ UNCHANGED <<vars, fhevm, hook>>
    \/ ClickGenerate /\ UNCHANGED <<vars, fhevm, hook>>
    \/ ClickReset /\ UNCHANGED <<vars, fhevm, hook>>

(* =========================== hook useContract ========================== *)

\* Most handler calls made on the hook.
MaxCalls == 3

ParticipantIds == {7}

WalletAccounts == {"0xA1"}

\* What an awaited promise settles to: it resolves, or it rejects with a
\* thrown value, an Error with a message or something that is not an Error.
Resolved == << >>
Rejected(err) == <<err>>

Thrown ==
    {[isError |-> TRUE, message |-> "user rejected the request"],
     [isError |-> TRUE, message |-> ""],
     [isError |-> FALSE, message |-> "timeout"]}

Outcomes == {Resolved} \cup {Rejected(err) : err \in Thrown}

\* err instanceof Error ? err.message : fallback
ErrorMessage(err, fallback) == IF err.isError THEN err.message ELSE fallback

\* A run of initializeContract in flight.  The mock contract it will build
\* closes over participantCount and selectionResult of the render the run
\* was created in.
InitRun(count, result, stage, account) ==
    [participantCount |-> count, selectionResult |-> result, stage |-> stage, account |-> account]

\* The mock contract: the two values its functions close over.
MockContract(run) == [participantCount |-> run.participantCount, selectionResult |-> run.selectionResult]

\* A handler call suspended at its await: the handler, its argument,
\* participants.length and the count read by getParticipantCount as the
\* call saw them, and what the contract promise settles to.
Pending(op, id, len, count, outcome) ==
    [op |-> op, id |-> id, len |-> len, count |-> count, outcome |-> outcome]

HookInit ==
    hook = [contract |-> Null, isConnected |-> FALSE, account |-> "", participantCount |-> 0,
            selectionResult |-> Null, participants |-> << >>, isLoading |-> FALSE, error |-> "",
            mounted |-> FALSE, ethereum |-> FALSE, inits |-> EmptyBag, calls |-> EmptyBag,
            started |-> 0, enrollments |-> 0]

\* initializeContract up to its first await.
StartInit(h) ==
    IF ~h.ethereum
    THEN [h EXCEPT !.error = "MetaMask not detected", !.isConnected = FALSE]
    ELSE [h EXCEPT !.inits = @ (+) SetToBag({InitRun(h.participantCount, h.selectionResult, "accounts", "")})]

\* A render after state updates: initializeContract is re-created when
\* participantCount or selectionResult changed (a result object just set is
\* a new object), and the effect depending on it runs it again.
Rerender(old, new, newResult) ==
    IF new.participantCount # old.participantCount \/ newResult THEN StartInit(new) ELSE new

\* The mount effects.
HookMount(ethereum) ==
    /\ ~hook.mounted
    /\ hook' = StartInit([hook EXCEPT !.mounted = TRUE, !.ethereum = ethereum])

\* eth_requestAccounts resolves; the run goes on to await getSigner.
InitAccountsResolved(run, account) ==
    /\ BagIn(run, hook.inits)
    /\ run.stage = "accounts"
    /\ hook' = [hook EXCEPT !.inits = (@ (-) SetToBag({run}))
                                        (+) SetToBag({[run EXCEPT !.stage = "signer", !.account = account]})]

\* getSigner resolves: the mock contract is built and installed.
InitSignerResolved(run) ==
    /\ BagIn(run, hook.inits)
    /\ run.stage = "signer"
    /\ hook' = [hook EXCEPT !.inits = @ (-) SetToBag({run}),
                            !.contract = Some(MockContract(run)),
                            !.account = run.account,
                            !.isConnected = TRUE,
                            !.error = ""]

\* Either await rejects: the catch block.
InitRejected(run, err) ==
    /\ BagIn(run, hook.inits)
    /\ hook' = [hook EXCEPT !.inits = @ (-) SetToBag({run}),
                            !.error = ErrorMessage(err, "Failed to connect to contract"),
                            !.isConnected = FALSE]

\* The wallet's accountsChanged event.
HandleAccountsChanged(accounts) ==
    /\ hook.mounted /\ hook.ethereum
    /\ hook' = IF Len(accounts) > 0
               THEN [hook EXCEPT !.account = accounts[1]]
               ELSE [hook EXCEPT !.account = "", !.isConnected = FALSE]

\* The handlers up to their await.  The mock contract's functions do their
\* work when called and return a settled promise.
HandlerEntry(h, call) ==
    [h EXCEPT !.isLoading = TRUE, !.error = "", !.started = @ + 1, !.calls = @ (+) SetToBag({call})]

EnrollCallOf(h, id, outcome) == Pending("enrollParticipant", id, 0, 0, outcome)

EnrollStart(h, id, outcome) ==
    LET h1 == HandlerEntry(h, EnrollCallOf(h, id, outcome))
        h2 == IF outcome = Resolved
              THEN [h1 EXCEPT !.participantCount = @ + 1, !.enrollments = @ + 1]
              ELSE h1
    IN  Rerender(h, h2, FALSE)

GenerateCallOf(h, outcome) == Pending("generateSelection", 0, Len(h.participants), 0, outcome)

GenerateStart(h, outcome, w) ==
    LET h1 == HandlerEntry(h, GenerateCallOf(h, outcome))
        h2 == IF outcome = Resolved
              THEN [h1 EXCEPT !.selectionResult = Some(Result(w))]
              ELSE h1
    IN  Rerender(h, h2, outcome = Resolved)

ResetCallOf(h, outcome) == Pending("resetRound", 0, 0, 0, outcome)

ResetStart(h, outcome) ==
    LET h1 == HandlerEntry(h, ResetCallOf(h, outcome))
        h2 == IF outcome = Resolved
              THEN [h1 EXCEPT !.participants = << >>, !.participantCount = 0,
                              !.selectionResult = Null, !.enrollments = 0]
              ELSE h1
    IN  Rerender(h, h2, outcome = Resolved /\ h.selectionResult # Null)

UpdateCallOf(h, outcome) ==
    Pending("updateParticipantCount", 0, 0, h.contract[1].participantCount, outcome)

UpdateStart(h, outcome) ==
    [h EXCEPT !.started = @ + 1, !.calls = @ (+) SetToBag({UpdateCallOf(h, outcome)})]

\* The handlers after their await: the rest of try, or catch, then finally.
HandlerExit(h, call) ==
    [h EXCEPT !.calls = @ (-) SetToBag({call})]

EnrollFinish(h, call) ==
    LET h1 == HandlerExit(h, call)
        newParticipant == [id |-> call.id, encryptedHandle |-> <<"encrypted_", call.id>>]
    IN  IF call.outcome = Resolved
        THEN [h1 EXCEPT !.participants = Append(@, newParticipant), !.isLoading = FALSE]
        ELSE [h1 EXCEPT !.error = ErrorMessage(call.outcome[1], "Failed to enroll participant"),
                        !.isLoading = FALSE]

GenerateFinish(h, call, w) ==
    LET h1 == HandlerExit(h, call)
    IN  IF call.outcome = Resolved
        THEN Rerender(h, [h1 EXCEPT !.selectionResult = Some(Result(w)), !.isLoading = FALSE], TRUE)
        ELSE [h1 EXCEPT !.error = ErrorMessage(call.outcome[1], "Failed to generate selection"),
                        !.isLoading = FALSE]

ResetFinish(h, call) ==
    LET h1 == HandlerExit(h, call)
    IN  IF call.outcome = Resolved
        THEN [h1 EXCEPT !.isLoading = FALSE]
        ELSE [h1 EXCEPT !.error = ErrorMessage(call.outcome[1], "Failed to reset round"),
                        !.isLoading = FALSE]

UpdateFinish(h, call) ==
    LET h1 == HandlerExit(h, call)
    IN  IF call.outcome = Resolved
        THEN Rerender(h, [h1 EXCEPT !.participantCount = call.count], FALSE)
        ELSE h1

\* A handler is called: without a contract it returns at once.
CanCall == hook.mounted /\ hook.started < MaxCalls

HookEnrollParticipant(id, outcome) ==
    /\ CanCall
    /\ hook' = IF hook.contract = Null THEN hook ELSE EnrollStart(hook, id, outcome)

HookGenerateSelection(outcome) ==
    /\ CanCall
    /\ IF hook.contract = Null
       THEN hook' = hook
       ELSE \E w \in RandomBelow(hook.contract[1].participantCount) :
               hook' = GenerateStart(hook, outcome, w)

HookResetRound(outcome) ==
    /\ CanCall
    /\ hook' = IF hook.contract = Null THEN hook ELSE ResetStart(hook, outcome)

HookUpdateParticipantCount(outcome) ==
    /\ CanCall
    /\ hook' = IF hook.contract = Null THEN hook ELSE UpdateStart(hook, outcome)

\* The contract promise of a call in flight settles and the handler goes on.
Resume(call) ==
    /\ BagIn(call, hook.calls)
    /\ CASE call.op = "enrollParticipant" -> hook' = EnrollFinish(hook, call)
         [] call.op = "generateSelection" ->
                \E w \in RandomBelow(call.len) : hook' = GenerateFinish(hook, call, w)
         [] call.op = "resetRound" -> hook' = ResetFinish(hook, call)
         [] call.op = "updateParticipantCount" -> hook' = UpdateFinish(hook, call)

HookNext ==
    \/ \E e \in BOOLEAN : HookMount(e) /\ UNCHANGED <<vars, fhevm, component>>
    \/ \E run \in BagToSet(hook.inits), a \in WalletAccounts : InitAccountsResolved(run, a) /\ UNCHANGED <<vars, fhevm, component>>
    \/ \E run \in BagToSet(hook.inits) : InitSignerResolved(run) /\ UNCHANGED <<vars, fhevm, component>>
    \/ \E run \in BagToSet(hook.inits), err \in Thrown : InitRejected(run, err) /\ UNCHANGED <<vars, fhevm, component>>
    \/ \E as \in {<< >>} \cup {<<a>> : a \in WalletAccounts} : HandleAccountsChanged(as) /\ UNCHANGED <<vars, fhevm, component>>
    \/ \E id \in ParticipantIds, o \in Outcomes : HookEnrollParticipant(id, o) /\ UNCHANGED <<vars, fhevm, component>>
    \/ \E o \in Outcomes : HookGenerateSelection(o) /\ UNCHANGED <<vars, fhevm, component>>
    \/ \E o \in Outcomes : HookResetRound(o) /\ UNCHANGED <<vars, fhevm, component>>
    \/ \E o \in Outcomes : HookUpdateParticipantCount(o) /\ UNCHANGED <<vars, fhevm, component>>
    \/ \E call \in BagToSet(hook.calls) : Resume(call) /\ UNCHANGED <<vars, fhevm, component>>

(* ================= the mock contract beside the contract =============== *)
\* The owner's operations done on the selector contract and through the
\* hook together.  Each handler call runs to its end before the next one.

BothEnroll(ext, id) ==
    /\ hook.contract # Null /\ hook.started < MaxCalls
    /\ EnrollParticipant(owner, ext, TRUE)
    /\ hook' = EnrollFinish(EnrollStart(hook, id, Resolved), EnrollCallOf(hook, id, Resolved))
    /\ UNCHANGED <<fhevm, component>>

BothGenerate(ts) ==
    /\ hook.contract # Null /\ hook.started < MaxCalls
    /\ GenerateEncryptedSelection(owner, ts)
    /\ \E w1 \in RandomBelow(hook.contract[1].participantCount), w2 \in RandomBelow(Len(hook.participants)) :
          hook' = GenerateFinish(GenerateStart(hook, Resolved, w1), GenerateCallOf(hook, Resolved), w2)
    /\ UNCHANGED <<fhevm, component>>

BothReset ==
    /\ hook.contract # Null /\ hook.started < MaxCalls
    /\ ResetRound(owner)
    /\ hook' = ResetFinish(ResetStart(hook, Resolved), ResetCallOf(hook, Resolved))
    /\ UNCHANGED <<fhevm, component>>

MockNext ==
    \/ HookMount(TRUE) /\ UNCHANGED <<vars, fhevm, component>>
    \/ \E run \in BagToSet(hook.inits), a \in WalletAccounts : InitAccountsResolved(run, a) /\ UNCHANGED <<vars, fhevm, component>>
    \/ \E run \in BagToSet(hook.inits) : InitSignerResolved(run) /\ UNCHANGED <<vars, fhevm, component>>
    \/ \E e \in ExternalHandles, id \in ParticipantIds : BothEnroll(e, id)
    \/ \E ts \in Timestamps : BothGenerate(ts)
    \/ BothReset

(* ============================ specifications =========================== *)

\* Every program starts from its own initial state.
InitAll == Init /\ FheInit /\ ComponentInit /\ HookInit

allVars == <<vars, others>>

\* The selector contract on its own.
Spec == InitAll /\ [][Next]_allVars

\* The FHEVMIntegration contract on its own.
SpecFHE == InitAll /\ [][FheNext]_allVars

\* The EncryptedSelector component on its own.
SpecUI == InitAll /\ [][ComponentNext]_allVars

\* The useContract hook on its own.
SpecHook == InitAll /\ [][HookNext]_allVars

\* The hook with its suspended handler calls resumed sooner or later: the
\* promise a handler awaits is settled, and the event loop runs the
\* continuation of a settled promise.
ResumeSome == \E call \in BagToSet(hook.calls) : Resume(call) /\ UNCHANGED <<vars, fhevm, component>>

SpecHookLive == SpecHook /\ WF_allVars(ResumeSome)

\* The hook's mock contract driven in step with the selector contract.
SpecMock == InitAll /\ [][MockNext]_allVars

(* ------------------------------ claims -------------------------------- *)

\* The successful calls, read off the event log: every successful
\* enrollParticipant, generateEncryptedSelection and resetRound emits one
\* event and a reverted call emits none.
LastReset(log) ==
    LET R == {i \in 1 .. Len(log) : log[i].name = "RoundReset"}
    IN  IF R = {} THEN 0 ELSE CHOOSE i \in R : \A j \in R : j <= i

EnrolledSinceReset(log) ==
    Cardinality({i \in (LastReset(log) + 1) .. Len(log) : log[i].name = "ParticipantEnrolled"})

Called(c, op) == c.op = op

Succeeded(c, op) == c.op = op /\ c.result = Ok

\* C1: after any sequence of calls, successful or failing, by any caller,
\* participantCount, and the value getParticipantCount() returns, is the
\* number of successful enrollments since the last successful reset (since
\* deployment if there was none).
C1_CountIsEnrollmentsSinceReset ==
    /\ participantCount = EnrolledSinceReset(events)
    /\ Succeeded(lastCall, "getParticipantCount") => lastCall.retCount = EnrolledSinceReset(events)

\* C1 witness: getParticipantCount() returns 2 in a round that follows a
\* reset.
C1_Witness ==
    /\ Succeeded(lastCall, "getParticipantCount")
    /\ lastCall.retCount = 2
    /\ LastReset(events) > 0

\* C2: selectionReady is false whenever participantCount is 0, and it turns
\* from false to true only in a successful generateEncryptedSelection.
C2_ReadyOnlyBySelection ==
    /\ [](participantCount = 0 => ~selectionReady)
    /\ [][(~selectionReady /\ selectionReady') => Succeeded(lastCall', "generateEncryptedSelection")]_vars

\* C2 witness: a selection is ready in a round that follows a reset.
C2_Witness ==
    /\ selectionReady
    /\ Succeeded(lastCall, "generateEncryptedSelection")
    /\ LastReset(events) > 0

\* C3 (as stated): while selectionReady stays true, participantCount keeps
\* the value it had at the selection: no step from a ready state to a ready
\* state changes it.
C3_CountFrozenWhileReady ==
    [][(selectionReady /\ selectionReady') => participantCount' = participantCount]_vars

\* C4: enrollParticipant by a caller other than the owner reverts with the
\* unauthorized error; storage is unchanged and no event is emitted.
C4_EnrollByNonOwnerReverts ==
    [][(Called(lastCall', "enrollParticipant") /\ lastCall'.caller # owner)
          => (lastCall'.result = Unauthorized /\ UNCHANGED <<storage, events>>)]_vars

\* C4 witness: a non-owner's enrollment was rejected in a round that has a
\* participant.
C4_Witness ==
    /\ Called(lastCall, "enrollParticipant")
    /\ lastCall.caller # owner
    /\ lastCall.result = Unauthorized
    /\ participantCount > 0

\* C5: generateEncryptedSelection by the owner with participantCount = 0
\* reverts with NoCandidates; selectionReady stays false and the winner
\* index is unchanged.
C5_SelectionWithoutCandidatesReverts ==
    [][(Called(lastCall', "generateEncryptedSelection") /\ lastCall'.caller = owner /\ participantCount = 0)
          => (/\ lastCall'.result = NoCandidates
              /\ ~selectionReady /\ ~selectionReady'
              /\ encryptedWinnerIndex' = encryptedWinnerIndex)]_vars

\* C5 witness: the owner's selection was rejected with NoCandidates in the
\* empty round that follows a reset.
C5_Witness ==
    /\ Called(lastCall, "generateEncryptedSelection")
    /\ lastCall.caller = owner
    /\ lastCall.result = NoCandidates
    /\ LastReset(events) > 0

\* C6: getEncryptedWinner, by any caller, reverts with DecryptionNotReady
\* whenever selectionReady is false.
C6_WinnerBeforeSelectionReverts ==
    [][(Called(lastCall', "getEncryptedWinner") /\ ~selectionReady)
          => (lastCall'.result = DecryptionNotReady /\ UNCHANGED <<storage, events>>)]_vars

\* C6 witness: a non-owner's getEncryptedWinner was rejected after
\* enrollments only.
C6_Witness ==
    /\ Called(lastCall, "getEncryptedWinner")
    /\ lastCall.result = DecryptionNotReady
    /\ lastCall.caller # owner
    /\ participantCount > 0

\* C7: resetRound by the owner succeeds from every state; right after it
\* participantCount is 0, selectionReady is false and one RoundReset event
\* has been appended to the log.
C7_ResetByOwnerClearsRound ==
    [][(Called(lastCall', "resetRound") /\ lastCall'.caller = owner)
          => (/\ lastCall'.result = Ok
              /\ participantCount' = 0
              /\ ~selectionReady'
              /\ events' = Append(events, RoundReset))]_vars

\* C7 witness: a reset went through right after a selection, that is from
\* the Ready state.
C7_Witness ==
    /\ Succeeded(lastCall, "resetRound")
    /\ Len(events) >= 2
    /\ events[Len(events)].name = "RoundReset"
    /\ events[Len(events) - 1].name = "SelectionGenerated"

\* C8: resetRound is idempotent: a successful reset that directly follows a
\* successful reset leaves the storage as the first one left it.
C8_ResetIdempotent ==
    [][(Succeeded(lastCall, "resetRound") /\ Succeeded(lastCall', "resetRound"))
          => storage' = storage]_vars

\* C8 witness: two resets in a row after two enrollments.
C8_Witness ==
    /\ Succeeded(lastCall, "resetRound")
    /\ Len(events) >= 4
    /\ events[Len(events)].name = "RoundReset"
    /\ events[Len(events) - 1].name = "RoundReset"
    /\ events[Len(events) - 2].name = "ParticipantEnrolled"
    /\ events[Len(events) - 3].name = "ParticipantEnrolled"

\* C9: whenever selectionReady is true, also after further enrollments, the
\* winner index is in [0, participantCount) and names an existing record
\* with a stored handle; that handle is what getEncryptedWinner returns.
C9_WinnerIsEnrolled ==
    selectionReady =>
        LET w == Decrypt(encryptedWinnerIndex)
        IN  /\ w \in 0 .. (participantCount - 1)
            /\ handleExists[w]
            /\ encryptedHandles[w].init
            /\ Succeeded(lastCall, "getEncryptedWinner") => lastCall.retHandle = encryptedHandles[w]

\* C9 witness: getEncryptedWinner returned a handle after a participant was
\* enrolled on top of a ready selection.
C9_Witness ==
    /\ Succeeded(lastCall, "getEncryptedWinner")
    /\ Len(events) >= 2
    /\ events[Len(events)].name = "ParticipantEnrolled"
    /\ events[Len(events) - 1].name = "SelectionGenerated"

\* C10: a successful generateEncryptedSelection stores a winner index w
\* with 0 <= w < participantCount, whatever the block timestamp, and sets
\* selectionReady.
C10_WinnerIndexInRange ==
    [][Succeeded(lastCall', "generateEncryptedSelection")
          => (/\ selectionReady'
              /\ encryptedWinnerIndex'.init
              /\ Decrypt(encryptedWinnerIndex') \in 0 .. (participantCount - 1)
              /\ participantCount' = participantCount)]_vars

\* C10 witness: a selection among three participants in a block whose
\* timestamp does not fit 32 bits, the last participant winning.
C10_Witness ==
    /\ Succeeded(lastCall, "generateEncryptedSelection")
    /\ lastCall.timestamp.h2 > 0
    /\ participantCount = 3
    /\ Decrypt(encryptedWinnerIndex) = 2

\* C11: resetRound by a caller other than the owner reverts with the
\* unauthorized error; the owner, the storage and the event log are
\* unchanged (participantCount keeps its value, no RoundReset is emitted).
C11_ResetByNonOwnerReverts ==
    [][(Called(lastCall', "resetRound") /\ lastCall'.caller # owner)
          => (lastCall'.result = Unauthorized /\ UNCHANGED <<owner, storage, events>>)]_vars

\* C11 witness: a non-owner's reset was rejected with one participant
\* enrolled.
C11_Witness ==
    /\ Called(lastCall, "resetRound")
    /\ lastCall.caller # owner
    /\ lastCall.result = Unauthorized
    /\ participantCount = 1

\* C12: generateEncryptedSelection by a caller other than the owner reverts
\* with the unauthorized error, also when participantCount is 0, and does
\* not change selectionReady.
C12_SelectionByNonOwnerReverts ==
    [][(Called(lastCall', "generateEncryptedSelection") /\ lastCall'.caller # owner)
          => (/\ lastCall'.result = Unauthorized
              /\ selectionReady' = selectionReady
              /\ UNCHANGED <<storage, events>>)]_vars

\* C12 witness: a non-owner's selection was rejected with the unauthorized
\* error in a round without participants.
C12_Witness ==
    /\ Called(lastCall, "generateEncryptedSelection")
    /\ lastCall.caller # owner
    /\ lastCall.result = Unauthorized
    /\ participantCount = 0

\* The IDs carried by the ParticipantEnrolled events of the log are, within
\* each round (from one RoundReset to the next), 0, 1, 2, ... in order.
RoundStart(log, i) ==
    LET R == {j \in 1 .. (i - 1) : log[j].name = "RoundReset"}
    IN  IF R = {} THEN 0 ELSE CHOOSE j \in R : \A k \in R : k <= j

EnrolledBefore(log, i) ==
    Cardinality({j \in (RoundStart(log, i) + 1) .. (i - 1) : log[j].name = "ParticipantEnrolled"})

SequentialIds(log) ==
    \A i \in 1 .. Len(log) :
        log[i].name = "ParticipantEnrolled" => log[i].participantId = EnrolledBefore(log, i)

\* C13: the k-th successful enrollParticipant since the last reset (or
\* since deployment) is assigned ID k-1: the record is stored under that ID
\* and the event carries it; the first enrollment after a reset gets ID 0
\* again; a failed enrollment consumes no ID.
C13_SequentialIdsPerRound ==
    /\ [][Succeeded(lastCall', "enrollParticipant")
             => LET id == EnrolledSinceReset(events)
                IN  /\ events' = Append(events, ParticipantEnrolled(id, encryptedHandles'[id]))
                    /\ handleExists'[id] /\ ~handleExists[id]
                    /\ encryptedHandles'[id].init]_vars
    /\ [][(Called(lastCall', "enrollParticipant") /\ lastCall'.result # Ok)
             => (participantCount' = participantCount /\ events' = events)]_vars

\* C13 witness: the first enrollment after a reset got ID 0 again, the
\* round before having had an enrollment of its own.
C13_Witness ==
    /\ Succeeded(lastCall, "enrollParticipant")
    /\ Len(events) >= 3
    /\ events[1].name = "ParticipantEnrolled"
    /\ events[Len(events) - 1].name = "RoundReset"
    /\ events[Len(events)].name = "ParticipantEnrolled"
    /\ events[Len(events)].participantId = 0

\* C14: a participant record exists for ID i (handleExists[i] is true and a
\* handle is stored) exactly when 0 <= i < participantCount: no gaps, and
\* nothing of an earlier round is left after a reset.
C14_RecordsAreTheIdsBelowCount ==
    \A i \in Ids :
        /\ handleExists[i] <=> i < participantCount
        /\ encryptedHandles[i].init <=> i < participantCount

\* C14 witness: one participant in a round that follows a reset of a round
\* with two participants.
C14_Witness ==
    /\ Len(events) = 4
    /\ events[1].name = "ParticipantEnrolled"
    /\ events[2].name = "ParticipantEnrolled"
    /\ events[3].name = "RoundReset"
    /\ events[4].name = "ParticipantEnrolled"
    /\ participantCount = 1

\* C15: participantCount never decreases except in a successful resetRound:
\* every other step leaves it equal or greater, and a successful
\* enrollParticipant raises it by exactly 1.
C15_CountMonotoneWithinRound ==
    [][/\ ~Succeeded(lastCall', "resetRound") => participantCount' >= participantCount
       /\ Succeeded(lastCall', "enrollParticipant") => participantCount' = participantCount + 1
       /\ participantCount' < participantCount => participantCount' = 0]_vars

\* C15 witness: an enrollment went through on top of a ready selection and
\* made the count 2.
C15_Witness ==
    /\ Succeeded(lastCall, "enrollParticipant")
    /\ participantCount = 2
    /\ selectionReady

\* C16: when the verification of the handle/proof pair fails,
\* enrollParticipant by the owner reverts and leaves the state unchanged:
\* participantCount, the records and the event log are as before.
C16_RejectedProofLeavesStateUnchanged ==
    [][(Called(lastCall', "enrollParticipant") /\ lastCall'.caller = owner /\ ~lastCall'.proofValid)
          => (/\ lastCall'.result = InvalidProof
              /\ participantCount' = participantCount
              /\ encryptedHandles' = encryptedHandles
              /\ handleExists' = handleExists
              /\ UNCHANGED <<owner, storage, events>>)]_vars

\* C16 witness: the owner's enrollment was rejected for its proof in a
\* round that has a participant.
C16_Witness ==
    /\ Called(lastCall, "enrollParticipant")
    /\ lastCall.caller = owner
    /\ ~lastCall.proofValid
    /\ lastCall.result = InvalidProof
    /\ participantCount = 1

\* The functions guarded by onlyOwner in the contract.
OwnerOnlyOps == {"enrollParticipant", "generateEncryptedSelection", "resetRound"}

\* C17: every change of the selector's storage is made by a successful call
\* whose caller is the owner at the time of the call; a call of an
\* owner-only function by anyone else fails with the unauthorized error and
\* a call by the owner is never refused for its caller, also after
\* ownership was transferred.
C17_OnlyCurrentOwnerChangesState ==
    [][/\ storage' # storage => (lastCall'.caller = owner /\ lastCall'.result = Ok)
       /\ (lastCall'.op \in OwnerOnlyOps /\ lastCall'.caller # owner) => lastCall'.result = Unauthorized
       /\ (lastCall'.op \in OwnerOnlyOps /\ lastCall'.caller = owner) => lastCall'.result # Unauthorized]_vars

\* C17 witness: after a transfer of ownership the deployer's reset was
\* refused, in a round in which a participant is enrolled.
C17_Witness ==
    /\ owner # Deployer
    /\ Called(lastCall, "resetRound")
    /\ lastCall.caller = Deployer
    /\ lastCall.result = Unauthorized
    /\ participantCount > 0

\* C18: getParticipantCount and isSelectionReady can be called by every
\* caller in every state, succeed, return the current participantCount and
\* selectionReady, and change nothing.
C18_ViewsReadWithoutEffect ==
    /\ [](\A c \in Addresses : ENABLED GetParticipantCount(c) /\ ENABLED IsSelectionReady(c))
    /\ [][/\ Called(lastCall', "getParticipantCount")
               => (/\ lastCall'.result = Ok
                   /\ lastCall'.retCount = participantCount
                   /\ UNCHANGED <<owner, storage, events>>)
          /\ Called(lastCall', "isSelectionReady")
               => (/\ lastCall'.result = Ok
                   /\ lastCall'.retFlag = selectionReady
                   /\ UNCHANGED <<owner, storage, events>>)]_vars

\* C18 witness: a non-owner's isSelectionReady returned false in a round
\* with two participants and no selection.
C18_Witness ==
    /\ Succeeded(lastCall, "isSelectionReady")
    /\ lastCall.caller # owner
    /\ ~lastCall.retFlag
    /\ participantCount = 2

\* C19: right after deployment the owner is the deploying account,
\* participantCount is 0 and selectionReady is false (no record, no winner
\* index and no event either).
C19_StateAfterDeployment ==
    Called(lastCall, "constructor") =>
        /\ lastCall.caller = Deployer
        /\ owner = lastCall.caller
        /\ participantCount = 0
        /\ ~selectionReady
        /\ encryptedWinnerIndex = ZeroHandle
        /\ \A i \in Ids : ~handleExists[i] /\ encryptedHandles[i] = ZeroHandle
        /\ events = << >>

\* C19 witness: the freshly deployed contract, before any call.
C19_Witness ==
    /\ Succeeded(lastCall, "constructor")
    /\ owner = Deployer
    /\ events = << >>

\* C20: the event log mirrors the calls in order: a successful
\* enrollParticipant appends one ParticipantEnrolled with the assigned ID
\* and the stored handle, a successful generateEncryptedSelection one
\* SelectionGenerated with the stored winner index, a successful resetRound
\* one RoundReset; a failed call appends nothing; and within a round the IDs
\* of the ParticipantEnrolled events are 0, 1, 2, ... in order.
C20_EventLogMirrorsCalls ==
    /\ [](SequentialIds(events))
    /\ [][/\ Succeeded(lastCall', "enrollParticipant")
               => events' = Append(events, ParticipantEnrolled(participantCount, encryptedHandles'[participantCount]))
          /\ Succeeded(lastCall', "generateEncryptedSelection")
               => events' = Append(events, SelectionGenerated(encryptedWinnerIndex'))
          /\ Succeeded(lastCall', "resetRound")
               => events' = Append(events, RoundReset)
          /\ lastCall'.result # Ok => events' = events
          /\ events' # events => (lastCall'.op \in OwnerOnlyOps /\ Len(events') = Len(events) + 1)]_vars

\* C20 witness: a log with the three kinds of event, the enrollment after
\* the reset carrying ID 0.
C20_Witness ==
    /\ Len(events) = 4
    /\ events[1].name = "ParticipantEnrolled"
    /\ events[2].name = "SelectionGenerated"
    /\ events[3].name = "RoundReset"
    /\ events[4] = ParticipantEnrolled(0, encryptedHandles[0])

\* C21 (as stated): only the owner gets a decryption or a result derived
\* from one: a getEncryptedWinner call by a caller other than the owner
\* never returns (it resolves the handle it returns by decrypting the winner
\* index).
C21_OnlyOwnerGetsDecryptionResult ==
    [][(Called(lastCall', "getEncryptedWinner") /\ lastCall'.caller # owner)
          => lastCall'.result # Ok]_vars

\* C25: a successful enrollParticipant changes participantCount and the
\* record of the newly assigned ID only: selectionReady, the winner index
\* and the records of all other IDs are as before.
C25_EnrollFrame ==
    [][Succeeded(lastCall', "enrollParticipant")
          => (/\ selectionReady' = selectionReady
              /\ encryptedWinnerIndex' = encryptedWinnerIndex
              /\ owner' = owner
              /\ \A i \in Ids \ {participantCount} :
                    /\ encryptedHandles'[i] = encryptedHandles[i]
                    /\ handleExists'[i] = handleExists[i])]_vars

\* C25 witness: an enrollment in the Ready state, the selection made among
\* two participants still in force.
C25_Witness ==
    /\ Succeeded(lastCall, "enrollParticipant")
    /\ selectionReady
    /\ participantCount = 3
    /\ Decrypt(encryptedWinnerIndex) = 1

\* C26: a successful generateEncryptedSelection changes the winner index
\* and selectionReady only: participantCount and the records are as before;
\* called by the owner with a participant enrolled it succeeds, also when
\* selectionReady is already true, and leaves selectionReady true.
C26_SelectionFrame ==
    [][/\ Succeeded(lastCall', "generateEncryptedSelection")
            => (/\ participantCount' = participantCount
                /\ encryptedHandles' = encryptedHandles
                /\ handleExists' = handleExists
                /\ owner' = owner
                /\ selectionReady')
       /\ (Called(lastCall', "generateEncryptedSelection") /\ lastCall'.caller = owner /\ participantCount > 0)
            => lastCall'.result = Ok]_vars

\* C26 witness: a second selection in the same round replaced winner index
\* 0 by winner index 1.
C26_Witness ==
    /\ Succeeded(lastCall, "generateEncryptedSelection")
    /\ Len(events) >= 2
    /\ events[Len(events) - 1] = SelectionGenerated(AsEuint32(0))
    /\ events[Len(events)] = SelectionGenerated(AsEuint32(1))
    /\ encryptedWinnerIndex = AsEuint32(1)

\* C22: generateRandomIndex(maxValue) fails with MaxValueMustBePositive when
\* maxValue is 0; for every maxValue > 0 and every seed it returns an
\* encryption of an index in [0, maxValue).
C22_RandomIndexBelowMaxValue ==
    fhevm.op = "generateRandomIndex"
        => LET maxValue == fhevm.args[1]
           IN  IF maxValue = U32(0, 0)
               THEN fhevm.result = MaxValueMustBePositive /\ fhevm.ret = << >>
               ELSE /\ fhevm.result = Ok
                    /\ Len(fhevm.ret) = 1
                    /\ fhevm.ret[1].init
                    /\ Lt32(Decrypt(fhevm.ret[1]), maxValue)

\* A seed of 2^32 - 1 under a bound of 2^31 gives the index 2^31 - 1.
C22_Witness ==
    /\ fhevm.op = "generateRandomIndex"
    /\ fhevm.result = Ok
    /\ fhevm.args[1] = U32(Limb \div 2, 0)
    /\ Decrypt(fhevm.ret[1]) = U32(Limb \div 2 - 1, Limb - 1)

\* C23: batchEncrypt fails with MismatchedInputs whenever values and proofs
\* differ in length, with EmptyBatch when both are empty, and otherwise
\* returns one encrypted value per input value, in input order.
C23_BatchEncryptOutcomes ==
    fhevm.op = "batchEncrypt"
        => LET values == fhevm.args[1]
               proofs == fhevm.args[2]
           IN  /\ Len(values) # Len(proofs) => fhevm.result = MismatchedInputs
               /\ (Len(values) = 0 /\ Len(proofs) = 0) => fhevm.result = EmptyBatch
               /\ (Len(values) = Len(proofs) /\ Len(values) > 0)
                     => /\ fhevm.result = Ok
                        /\ Len(fhevm.ret) = Len(values)
                        /\ \A i \in 1 .. Len(values) :
                              fhevm.ret[i].init /\ Decrypt(fhevm.ret[i]) = values[i]

\* A batch of two different values comes back in the order given.
C23_Witness ==
    /\ fhevm.op = "batchEncrypt"
    /\ fhevm.result = Ok
    /\ fhevm.args[1] = <<U32(0, 2), U32(0, 1)>>
    /\ fhevm.ret = <<AsEuint32(U32(0, 2)), AsEuint32(U32(0, 1))>>

\* The name each operation is announced under.
OperationNames ==
    [encryptValue |-> "encryption", homomorphicAdd |-> "addition",
     homomorphicSub |-> "subtraction", homomorphicMul |-> "multiplication",
     homomorphicGt |-> "comparison", generateRandomIndex |-> "random_generation",
     decryptValue |-> "decryption", batchEncrypt |-> "batch_encryption"]

\* C24: every successful FHEVMIntegration operation emits exactly one
\* FHEOperation event naming the operation and the caller, as the last event
\* of the call; encryptValue emits EncryptionPerformed and decryptValue emits
\* DecryptionRequested (caller, value) before it; a reverted call emits none.
C24_OperationEvents ==
    fhevm.op \in DOMAIN OperationNames
        => LET log == fhevm.events
               n == Len(log)
           IN  IF fhevm.result # Ok
               THEN log = << >>
               ELSE /\ n >= 1
                    /\ log[n].name = "FHEOperation"
                    /\ log[n].operation = OperationNames[fhevm.op]
                    /\ log[n].caller = fhevm.caller
                    /\ \A i \in 1 .. n - 1 : log[i].name # "FHEOperation"
                    /\ CASE fhevm.op = "encryptValue" ->
                                n = 2 /\ log[1] = EncryptionPerformed(fhevm.caller, fhevm.ret[1])
                         [] fhevm.op = "decryptValue" ->
                                n = 2 /\ log[1] = DecryptionRequested(fhevm.caller, fhevm.args[1])
                         [] OTHER -> n = 1

\* A decryption asked for by an account other than the deployer.
C24_Witness ==
    /\ fhevm.op = "decryptValue"
    /\ fhevm.caller # Deployer
    /\ fhevm.ret = <<U32(Limb - 1, Limb - 1)>>
    /\ Len(fhevm.events) = 2
    /\ fhevm.events[1].name = "DecryptionRequested"
    /\ fhevm.events[2].operation = "decryption"

\* C27: in the EncryptedSelector component the displayed participantCount
\* equals participants.length in every reachable state, whatever the order
\* of clicks and of the completion of initializeFHEVM's account request.
C27_DisplayedCountIsListLength ==
    component.participantCount = Len(component.participants)

\* C28: in the useContract hook participantCount equals the number of
\* enrollments since the last reset, whatever the order of enrollParticipant,
\* resetRound, updateParticipantCount and the re-creation of the mock
\* contract: updateParticipantCount never writes a count that an older mock
\* contract closed over.
C28_HookCountIsEnrollmentsSinceReset ==
    hook.participantCount = hook.enrollments

\* What the hook shows of the selection: selectionResult?.isReady.
HookReady == hook.selectionResult # Null /\ hook.selectionResult[1].isReady

\* C29: the hook's mocked selector agrees with the contract on participant
\* count and selection ready after every sequence of enroll, generate and
\* reset by the owner; a selection over zero participants produces no ready
\* result, and a winnerId produced is below the number of participants.
C29_MockAgreesWithContract ==
    /\ hook.participantCount = participantCount
    /\ HookReady = selectionReady
    /\ HookReady => hook.selectionResult[1].winnerId < hook.participantCount

\* The handlers that set isLoading.
LoadingHandlers == {"enrollParticipant", "generateSelection", "resetRound"}

\* The step in which the suspended call resumes and runs to its end.
Resumes(call) == BagIn(call, hook.calls) /\ hook'.calls = hook.calls (-) SetToBag({call})

C30_LoadingEventuallyCleared == hook.isLoading ~> ~hook.isLoading

\* C30, the parts that hold of a call that threw: isLoading is cleared,
\* error is the thrown Error's message or the handler's default message, and
\* participants and selectionResult are as before.
C30_ThrowLeavesStateAndSetsMessage ==
    [][\A call \in BagToSet(hook.calls) :
          (call.op \in LoadingHandlers /\ Resumes(call))
              => /\ ~hook'.isLoading
                 /\ call.outcome # Resolved
                       => /\ hook'.error \in {call.outcome[1].message, "Failed to enroll participant",
                                             "Failed to generate selection", "Failed to reset round"}
                          /\ ~call.outcome[1].isError => hook'.error # ""
                          /\ hook'.participants = hook.participants
                          /\ hook'.selectionResult = hook.selectionResult]_allVars

====
